---- MODULE Spec2Model ----
(***************************************************************************)
(* A model of the batch PDF-to-markdown conversion of zotero-kbase         *)
(* (src/convert_pdf_files.py): convert_multiple_pdfs_to_md driving         *)
(* convert_single_pdf_to_md over a list of (path, id) pairs, on an output  *)
(* directory that holds markdown files, a shared images directory and      *)
(* per-position working directories temp_<i>.                              *)
(*                                                                         *)
(* A run is one call of convert_multiple_pdfs_to_md.  The model holds two  *)
(* runs so that a second call (after the first, beside it, or on a copy    *)
(* of the same initial directory) can be compared with the first; in the   *)
(* plain specification Spec only run 1 is ever started.                    *)
(***************************************************************************)
EXTENDS Integers, Sequences, FiniteSets, TLC

\* ------------------------------------------------------------------ bounds

\* Longest request list.
MaxReqs == 2
\* Largest pages_max; the page probe returns 0 .. MaxLimit + 1.
MaxLimit == 1
\* Largest attachment id.
MaxId == 2
\* Most image files one engine invocation writes.
MaxImages == 2
\* Most markdown files already in the output directory before the first run.
MaxInitFiles == 1

Runs == {1, 2}
\* The output directories a run may be given as out_dir.
OutDirs == {1, 2}

\* None: pages_max=None, a local not yet assigned, a summary line not printed.
None == -1

\* ------------------------------------------------------- names and strings
\* A file name is a sequence of tokens; a path is a directory token followed
\* by the file name's tokens.

IMAGE_EXTENSIONS == {".png", ".jpg", ".jpeg", ".gif", ".bmp"}

Paths == { <<"d1", "a", ".pdf">>, <<"d2", "b", ".pdf">> }

Ids == 1..MaxId

\* str.lower() on one token.
Lower(tok) == IF tok = ".PNG" THEN ".png" ELSE tok

IsExtension(tok) == tok \in IMAGE_EXTENSIONS \cup {".PNG", ".webp", ".pdf", ".md"}

\* os.path.basename
basename(path) == Tail(path)

\* os.path.splitext(...)[0]
splitext(name) ==
    IF Len(name) > 1 /\ IsExtension(name[Len(name)])
    THEN SubSeq(name, 1, Len(name) - 1)
    ELSE name

\* filename_without_ext and output_name of a request, and the file name of
\* its markdown in out_dir.
filename_without_ext(pdf_path) == splitext(basename(pdf_path))

output_name(pdf_path, pdf_id) ==
    <<ToString(pdf_id), "_">> \o filename_without_ext(pdf_path)

final_md_name(pdf_path, pdf_id) == output_name(pdf_path, pdf_id) \o <<".md">>

\* The image moved to images/ under the name the engine gave it.
new_image_name_unprefixed(pdf_id, image_file) == image_file

\* new_image_name = f"{image_prefix}_{image_file}"
new_image_name(pdf_id, image_file) == <<ToString(pdf_id), "_">> \o image_file

\* image_file.lower().endswith(IMAGE_EXTENSIONS)
has_image_extension(image_file) ==
    /\ Len(image_file) > 0
    /\ Lower(image_file[Len(image_file)]) \in IMAGE_EXTENSIONS

IsPrefix(s, t) == Len(s) <= Len(t) /\ SubSeq(t, 1, Len(s)) = s

\* content.replace("images/" + old, "images/" + new) on one reference of the
\* markdown: the text after "images/" is matched from its start.
replace_ref(ref, old, new) ==
    IF IsPrefix(old, ref)
    THEN new \o SubSeq(ref, Len(old) + 1, Len(ref))
    ELSE ref

\* The markdown content is its image references: for each reference as the
\* engine wrote it, the text that stands there now.
replace_content(content, old, new) ==
    [ref \in DOMAIN content |-> replace_ref(content[ref], old, new)]

\* ---------------------------------------------------------- the environment

\* The names the engine may give the images it extracts from each PDF: the
\* first has two figures, one named like the prefixed form of the other; the
\* second has one, in a format that is not among IMAGE_EXTENSIONS.
ImageNames(path) ==
    IF path = <<"d1", "a", ".pdf">>
    THEN { <<"a", ".png">>, <<"1", "_", "a", ".png">> }
    ELSE { <<"f", ".webp">> }

RECURSIVE SeqsOver(_, _)
SeqsOver(S, n) ==
    IF n = 0 THEN { <<>> }
    ELSE LET shorter == SeqsOver(S, n - 1)
         IN shorter \cup { Append(s, x) : s \in shorter, x \in S }

\* What one engine invocation may do: write these images, then either dump
\* the markdown that references them or raise.
EngineResults(path) ==
    [ images : { S \in SUBSET ImageNames(path) : Cardinality(S) <= MaxImages },
      raises : BOOLEAN ]

PageCounts == 0..(MaxLimit + 1)

\* ------------------------------------------------------------------- state

VARIABLES
    \* The arguments of each run (call of convert_multiple_pdfs_to_md).
    fullpath_list, id_list, out_dir, pages_max, force_rebuild,
    \* Its locals: the loop index, the three lists, the last probed page
    \* count, what is left of os.listdir(temp_images_dir).
    i, generated_files, skipped_files, already_converted_files, page_count,
    listing,
    \* Where it stands, what it has printed per request, its final summary.
    pc, console, summary,
    \* The run that must have returned before this one is called (0: none).
    after,
    \* Each output directory: whether it exists, its markdown files (name ->
    \* content), its images directory (name -> what wrote the file) and its
    \* temp_<n> directories (n -> the directory's markdown and images).
    out_exists, md_files, image_files, temp_dirs,
    \* The environment: per PDF the page counts the reader may report and
    \* what the engine may do with it; whether file operations may fail.
    pdf_env, io_faults

\* The annotation renderer (convert_annotations.py).
VARIABLES
    \* The annotations CSV: whether the file exists, and the table read_csv
    \* gives (a sequence of rows).
    csv_exists, annot,
    \* The function that was called and its attachment_id argument (in
    \* process_all_attachments, the loop variable).
    entry, attachment_id,
    \* Its locals: the selected and sorted rows, how many of them the loop
    \* has rendered, current_page (<<>> is None), markdown_content, and in
    \* process_all_attachments the ids still to process and results.
    annot_sel, row, current_page, markdown_content, attachment_ids, results,
    \* Where it stands and what it returned.
    rc, result,
    \* The output directory: whether it exists, and its files
    \* (attachment id -> content of <id>.md).
    output_dir_exists, output_files

\* The extractors (extract_zotero_metadata.py, extract_zotero_annotations.py).
VARIABLES
    \* The database: whether the file exists, how sqlite3 fails on it if it
    \* does ("none", "connect", "query", "write"), the paper-attachment
    \* records and the annotation rows its queries give.
    db_exists, db_fault, attachment_records, annotation_rows,
    \* The function that was called, where it stands, the connection
    \* ("none", "open", "closed"), the CSV it wrote (the metadata or the
    \* annotations table; <<>> while there is no file) and what it returned.
    extractor, xc, conn, metadata_csv, output_csv, success

args == <<fullpath_list, id_list, out_dir, pages_max, force_rebuild, after>>
locals == <<i, generated_files, skipped_files, already_converted_files,
            page_count, listing>>
output == <<console, summary>>
files == <<out_exists, md_files, image_files, temp_dirs>>
env == <<pdf_env, io_faults>>
renderer == <<csv_exists, annot, entry, attachment_id, annot_sel, row,
              current_page, markdown_content, attachment_ids, results, rc,
              result, output_dir_exists, output_files>>
extraction == <<db_exists, db_fault, attachment_records, annotation_rows,
                extractor, xc, conn, metadata_csv, output_csv, success>>
vars == <<args, locals, pc, output, files, env, renderer, extraction>>

EmptyFn == [x \in {} |-> x]

Restrict(f, S) == [x \in S |-> f[x]]

Remove(f, x) == Restrict(f, DOMAIN f \ {x})

Put(f, x, v) == [y \in DOMAIN f \cup {x} |-> IF y = x THEN v ELSE f[y]]

\* An empty working directory.
EmptyTemp == [md |-> EmptyFn, images |-> EmptyFn]

\* ------------------------------------------------------------ initial state

\* The content of a markdown file that was in out_dir before the first run.
OldContent == [ref \in { <<"old">> } |-> ref]

\* What wrote a file that was there before the first run.
OldFile(name) == [run |-> 0, pos |-> 0, name |-> name]

StaleImage == <<"x", ".png">>

\* A working directory left behind by a run that was killed.
StaleTemp == [md |-> EmptyFn, images |-> [f \in {StaleImage} |-> OldFile(f)]]

AllMdNames == { final_md_name(p, d) : p \in Paths, d \in Ids }

\* The output directories before the first run: some markdown files of
\* earlier runs, possibly an image, possibly one working directory that a
\* killed run left behind with an image in it.
InitialDirs ==
    { [exists |-> e, md |-> [n \in M |-> OldContent],
       images |-> [n \in I |-> OldFile(n)],
       temp |-> [n \in T |-> StaleTemp]] :
        e \in BOOLEAN,
        M \in { S \in SUBSET AllMdNames : Cardinality(S) <= MaxInitFiles },
        I \in { {} },
        T \in { S \in SUBSET (0..(MaxReqs - 1)) : Cardinality(S) <= 1 } }

\* A directory that does not exist holds nothing.
WellFormedDir(D) == D.exists \/ (D.md = EmptyFn /\ D.images = EmptyFn /\ D.temp = EmptyFn)

PagesMaxValues == {None} \cup (1..MaxLimit)

RequestLists ==
    { <<ps, ds>> \in SeqsOver(Paths, MaxReqs) \X SeqsOver(Ids, MaxReqs) : TRUE }

\* Anything may happen to any PDF.
AnyEnv == [p \in Paths |-> [pages |-> PageCounts, engine |-> EngineResults(p)]]

\* No extractor is called.
ExtractorIdle ==
    /\ db_exists = FALSE
    /\ db_fault = "none"
    /\ attachment_records = <<>>
    /\ annotation_rows = <<>>
    /\ extractor = "none"
    /\ xc = "off"
    /\ conn = "none"
    /\ metadata_csv = <<>>
    /\ output_csv = <<>>
    /\ success = FALSE

\* The renderer is not called.
RendererIdle ==
    /\ csv_exists = FALSE
    /\ annot = <<>>
    /\ entry = "none"
    /\ attachment_id = None
    /\ annot_sel = <<>>
    /\ row = 0
    /\ current_page = <<>>
    /\ markdown_content = <<>>
    /\ attachment_ids = <<>>
    /\ results = EmptyFn
    /\ rc = "off"
    /\ result = None
    /\ output_dir_exists = FALSE
    /\ output_files = EmptyFn

\* The locals and outputs of a run that has not started.
InitRun ==
    /\ i = [r \in Runs |-> 0]
    /\ generated_files = [r \in Runs |-> <<>>]
    /\ skipped_files = [r \in Runs |-> <<>>]
    /\ already_converted_files = [r \in Runs |-> <<>>]
    /\ page_count = [r \in Runs |-> None]
    /\ listing = [r \in Runs |-> {}]
    /\ console = [r \in Runs |-> <<>>]
    /\ summary = [r \in Runs |-> None]

InitFiles ==
    \E D \in InitialDirs :
        /\ WellFormedDir(D)
        /\ out_exists = [d \in OutDirs |-> D.exists]
        /\ md_files = [d \in OutDirs |-> D.md]
        /\ image_files = [d \in OutDirs |-> D.images]
        /\ temp_dirs = [d \in OutDirs |-> D.temp]

\* One call, of any arguments, in any environment.
Init ==
    /\ InitRun
    /\ InitFiles
    /\ RendererIdle
    /\ ExtractorIdle
    /\ \E L \in RequestLists, pm \in PagesMaxValues, fr \in BOOLEAN :
        /\ fullpath_list = [r \in Runs |-> L[1]]
        /\ id_list = [r \in Runs |-> L[2]]
        /\ pages_max = [r \in Runs |-> pm]
        /\ force_rebuild = [r \in Runs |-> fr]
    /\ out_dir = [r \in Runs |-> 1]
    /\ after = [r \in Runs |-> 0]
    /\ pc = [r \in Runs |-> IF r = 1 THEN "start" ELSE "off"]
    /\ pdf_env = AnyEnv
    /\ io_faults = TRUE

\* ----------------------------------------------------------------- actions

\* A run is called at once, or when the run it comes after has returned.
Called(r) ==
    /\ pc[r] = "start"
    /\ IF after[r] = 0 THEN TRUE ELSE pc[after[r]] \in {"done", "raised"}

\* The test of line 111 taken to be never true.
lengths_differ_never(r) == FALSE

\* Line 111: len(id_list) != len(fullpath_list)
lengths_differ(r) == Len(id_list[r]) # Len(fullpath_list[r])

\* Lines 111-112: the two lists differ in length.
RaiseValueError(r) ==
    /\ Called(r)
    /\ lengths_differ(r)
    /\ pc' = [pc EXCEPT ![r] = "raised"]
    /\ UNCHANGED <<args, locals, output, files, env, renderer, extraction>>

\* The test of line 115 taken to be never true.
rebuild_never(r) == FALSE

\* Line 115: force_rebuild and os.path.exists(out_dir)
rebuild(r) == force_rebuild[r] /\ out_exists[out_dir[r]]

\* Lines 114-125: with force_rebuild an existing out_dir is deleted; out_dir
\* and its images directory are created; the three lists start empty.
Prepare(r) ==
    LET d == out_dir[r]
        wipe == rebuild(r)
    IN  /\ Called(r)
        /\ ~lengths_differ(r)
        /\ out_exists' = [out_exists EXCEPT ![d] = TRUE]
        /\ md_files' = [md_files EXCEPT ![d] = IF wipe THEN EmptyFn ELSE @]
        /\ image_files' = [image_files EXCEPT ![d] = IF wipe THEN EmptyFn ELSE @]
        /\ temp_dirs' = [temp_dirs EXCEPT ![d] = IF wipe THEN EmptyFn ELSE @]
        /\ pc' = [pc EXCEPT ![r] = "loop"]
        /\ UNCHANGED <<args, locals, output, env, renderer, extraction>>

\* The request the loop of line 136 stands at.
pdf_path(r) == fullpath_list[r][i[r] + 1]
pdf_id(r) == id_list[r][i[r] + 1]

InLoop(r) == pc[r] = "loop" /\ i[r] < Len(fullpath_list[r])

\* The test of line 144 looking for the markdown in the working directory.
already_converted_in_temp(r) ==
    /\ ~force_rebuild[r]
    /\ i[r] \in DOMAIN temp_dirs[out_dir[r]]
    /\ final_md_name(pdf_path(r), pdf_id(r)) \in DOMAIN temp_dirs[out_dir[r]][i[r]].md

\* The test of line 144 with the flag the wrong way round.
already_converted_inverted(r) ==
    /\ force_rebuild[r]
    /\ final_md_name(pdf_path(r), pdf_id(r)) \in DOMAIN md_files[out_dir[r]]

\* Line 144: not force_rebuild and os.path.exists(final_md_path)
already_converted(r) ==
    /\ ~force_rebuild[r]
    /\ final_md_name(pdf_path(r), pdf_id(r)) \in DOMAIN md_files[out_dir[r]]

\* Lines 127-134: what get_pdf_page_count may return for a path; a reader
\* that raises gives 0.
get_pdf_page_count(path) == pdf_env[path].pages

\* The comparison of line 153 off by one.
exceeds_limit_ge(n, limit) == n >= limit

\* Line 153
exceeds_limit(n, limit) == n > limit

\* Line 157
undetermined(n) == n = 0

\* The lines the loop prints (lines 145, 154, 158, 163/166, 197, 200).
print(r, line) == console' = [console EXCEPT ![r] = Append(@, line)]

\* The loop staying at the request it is at.
NextRequest_again(r) == i' = i

\* Line 136: the for loop moves to the next request.
NextRequest(r) == i' = [i EXCEPT ![r] = @ + 1]

\* Lines 142-148: the markdown of this request exists.
AlreadyConverted(r) ==
    /\ InLoop(r)
    /\ already_converted(r)
    /\ already_converted_files' = [already_converted_files EXCEPT
            ![r] = Append(@, final_md_name(pdf_path(r), pdf_id(r)))]
    /\ generated_files' = [generated_files EXCEPT
            ![r] = Append(@, final_md_name(pdf_path(r), pdf_id(r)))]
    /\ print(r, "Already converted")
    /\ NextRequest(r)
    /\ UNCHANGED <<args, skipped_files, page_count, listing, pc, summary,
                   files, env, renderer, extraction>>

\* Lines 151-156: the page count is over pages_max.
SkipTooLarge(r) ==
    /\ InLoop(r)
    /\ ~already_converted(r)
    /\ pages_max[r] # None
    /\ \E n \in get_pdf_page_count(pdf_path(r)) :
        /\ exceeds_limit(n, pages_max[r])
        /\ page_count' = [page_count EXCEPT ![r] = n]
    /\ skipped_files' = [skipped_files EXCEPT ![r] = Append(@, pdf_path(r))]
    /\ print(r, "Skipping (pages limit)")
    /\ NextRequest(r)
    /\ UNCHANGED <<args, generated_files, already_converted_files, listing,
                   pc, summary, files, env, renderer, extraction>>

\* Lines 157-160: the page count is 0.
SkipUndetermined(r) ==
    /\ InLoop(r)
    /\ ~already_converted(r)
    /\ pages_max[r] # None
    /\ \E n \in get_pdf_page_count(pdf_path(r)) :
        /\ ~exceeds_limit(n, pages_max[r])
        /\ undetermined(n)
        /\ page_count' = [page_count EXCEPT ![r] = n]
    /\ skipped_files' = [skipped_files EXCEPT ![r] = Append(@, pdf_path(r))]
    /\ print(r, "Skipping (could not determine page count)")
    /\ NextRequest(r)
    /\ UNCHANGED <<args, generated_files, already_converted_files, listing,
                   pc, summary, files, env, renderer, extraction>>

\* Lines 150-169: the request passes the page check, or there is none.
StartConversion(r) ==
    /\ InLoop(r)
    /\ ~already_converted(r)
    /\ IF pages_max[r] = None
       THEN UNCHANGED page_count
       ELSE \E n \in get_pdf_page_count(pdf_path(r)) :
                /\ ~exceeds_limit(n, pages_max[r])
                /\ ~undetermined(n)
                /\ page_count' = [page_count EXCEPT ![r] = n]
    /\ print(r, "Converting")
    /\ pc' = [pc EXCEPT ![r] = "convert"]
    /\ UNCHANGED <<args, i, generated_files, skipped_files,
                   already_converted_files, listing, summary, files, env, renderer, extraction>>

\* Line 169: the working directory of the request at position i.
temp_dir(r) == i[r]

TempExists(r) == temp_dir(r) \in DOMAIN temp_dirs[out_dir[r]]

\* The except clause missing: the exception leaves the function.
Except_propagates(r) ==
    /\ UNCHANGED console
    /\ pc' = [pc EXCEPT ![r] = "raised"]

\* Lines 199-200: the except clause.
Except(r) ==
    /\ print(r, "Error converting")
    /\ pc' = [pc EXCEPT ![r] = "finally"]

\* Lines 88-90: the markdown the engine dumps references each image it wrote
\* by its name under images/.
dump_md(images) == [ref \in images |-> ref]

\* What the engine invocation of request i of run r writes.
Written(r, name) == [run |-> r, pos |-> i[r], name |-> name]

\* Lines 173, 46-92: convert_single_pdf_to_md into temp_dir.  The directory
\* and its images subdirectory are created if absent (exist_ok); the engine
\* writes its images, then dumps the markdown or raises.
ConvertSingle(r) ==
    LET d == out_dir[r]
        t == temp_dir(r)
        dir == IF TempExists(r) THEN temp_dirs[d][t] ELSE EmptyTemp
        md_filename == final_md_name(pdf_path(r), pdf_id(r))
    IN  /\ pc[r] = "convert"
        /\ \E res \in pdf_env[pdf_path(r)].engine :
            LET images == [f \in DOMAIN dir.images \cup res.images |->
                              IF f \in res.images THEN Written(r, f)
                              ELSE dir.images[f]]
            IN  IF res.raises
                THEN /\ temp_dirs' = [temp_dirs EXCEPT ![d] =
                            Put(@, t, [md |-> dir.md, images |-> images])]
                     /\ Except(r)
                ELSE /\ temp_dirs' = [temp_dirs EXCEPT ![d] =
                            Put(@, t, [md |-> Put(dir.md, md_filename, dump_md(res.images)),
                                       images |-> images])]
                     /\ UNCHANGED console
                     /\ pc' = [pc EXCEPT ![r] = "move"]
        /\ out_exists' = [out_exists EXCEPT ![d] = TRUE]
        /\ UNCHANGED <<args, locals, summary, md_files, image_files, env, renderer, extraction>>

\* Whether a file operation of the try block fails for a reason of the file
\* system's own.
Faults == IF io_faults THEN BOOLEAN ELSE {FALSE}

\* Lines 175-181: shutil.move of the markdown to out_dir, then
\* os.listdir(temp_images_dir) if that directory exists.
MoveMarkdown(r) ==
    LET d == out_dir[r]
        t == temp_dir(r)
        md_filename == final_md_name(pdf_path(r), pdf_id(r))
        md_file_exists == TempExists(r) /\ md_filename \in DOMAIN temp_dirs[d][t].md
    IN  /\ pc[r] = "move"
        /\ \E fault \in Faults :
            IF fault \/ ~md_file_exists
            THEN /\ Except(r)
                 /\ UNCHANGED <<listing, md_files, temp_dirs>>
            ELSE /\ md_files' = [md_files EXCEPT ![d] =
                        Put(@, md_filename, temp_dirs[d][t].md[md_filename])]
                 /\ temp_dirs' = [temp_dirs EXCEPT ![d][t].md = Remove(@, md_filename)]
                 /\ listing' = [listing EXCEPT ![r] = DOMAIN temp_dirs[d][t].images]
                 /\ pc' = [pc EXCEPT ![r] = "relocate"]
                 /\ UNCHANGED console
        /\ UNCHANGED <<args, i, generated_files, skipped_files,
                       already_converted_files, page_count, summary,
                       out_exists, image_files, env, renderer, extraction>>

\* Lines 181-194, one pass of the loop over the listing, in any order: a file
\* with an image extension is moved to images/ under its prefixed name and
\* the markdown is read, rewritten and written back.
RelocateImage(r) ==
    LET d == out_dir[r]
        t == temp_dir(r)
        md_filename == final_md_name(pdf_path(r), pdf_id(r))
    IN  /\ pc[r] = "relocate"
        /\ \E image_file \in listing[r] :
            LET new_name == new_image_name(pdf_id(r), image_file)
                src_exists == TempExists(r) /\ image_file \in DOMAIN temp_dirs[d][t].images
            IN  IF ~has_image_extension(image_file)
                THEN /\ listing' = [listing EXCEPT ![r] = @ \ {image_file}]
                     /\ UNCHANGED <<pc, console, md_files, image_files, temp_dirs>>
                ELSE \E move_fault \in Faults, rewrite_fault \in Faults :
                    IF move_fault \/ ~src_exists
                    THEN /\ Except(r)
                         /\ UNCHANGED <<listing, md_files, image_files, temp_dirs>>
                    ELSE /\ image_files' = [image_files EXCEPT ![d] =
                                Put(@, new_name, temp_dirs[d][t].images[image_file])]
                         /\ temp_dirs' = [temp_dirs EXCEPT ![d][t].images =
                                Remove(@, image_file)]
                         /\ IF rewrite_fault \/ md_filename \notin DOMAIN md_files[d]
                            THEN /\ Except(r)
                                 /\ UNCHANGED <<listing, md_files>>
                            ELSE /\ md_files' = [md_files EXCEPT ![d][md_filename] =
                                        replace_content(@, image_file, new_name)]
                                 /\ listing' = [listing EXCEPT ![r] = @ \ {image_file}]
                                 /\ UNCHANGED <<pc, console>>
        /\ UNCHANGED <<args, i, generated_files, skipped_files,
                       already_converted_files, page_count, summary,
                       out_exists, env, renderer, extraction>>

\* Line 196 missing: success is printed but the path is not appended.
Success_no_append(r) ==
    /\ pc[r] = "relocate"
    /\ listing[r] = {}
    /\ print(r, "Successfully converted")
    /\ pc' = [pc EXCEPT ![r] = "finally"]
    /\ UNCHANGED <<args, i, generated_files, skipped_files,
                   already_converted_files, page_count, listing, summary,
                   files, env, renderer, extraction>>

\* Lines 196-197: the listing is exhausted.
Success(r) ==
    /\ pc[r] = "relocate"
    /\ listing[r] = {}
    /\ generated_files' = [generated_files EXCEPT
            ![r] = Append(@, final_md_name(pdf_path(r), pdf_id(r)))]
    /\ print(r, "Successfully converted")
    /\ pc' = [pc EXCEPT ![r] = "finally"]
    /\ UNCHANGED <<args, i, skipped_files, already_converted_files, page_count,
                   listing, summary, files, env, renderer, extraction>>

\* The finally clause without its rmtree.
rmtree_temp_kept(temps, t) == temps

\* shutil.rmtree(temp_dir) of lines 204-205.
rmtree_temp(temps, t) == Remove(temps, t)

\* Lines 202-205: the finally clause, then the next request.
Cleanup(r) ==
    /\ pc[r] = "finally"
    /\ temp_dirs' = [temp_dirs EXCEPT ![out_dir[r]] = rmtree_temp(@, temp_dir(r))]
    /\ NextRequest(r)
    /\ pc' = [pc EXCEPT ![r] = "loop"]
    /\ UNCHANGED <<args, generated_files, skipped_files, already_converted_files,
                   page_count, listing, output, out_exists, md_files,
                   image_files, env, renderer, extraction>>

\* The summary of lines 207-213 counting the already converted files among
\* the newly converted.
Summary_no_subtract(r) ==
    [ converted |-> Len(generated_files[r]),
      already |-> IF already_converted_files[r] # <<>>
                  THEN Len(already_converted_files[r]) ELSE None,
      too_many_pages |-> IF pages_max[r] # None /\ skipped_files[r] # <<>>
                         THEN Len(skipped_files[r]) ELSE None,
      total |-> Len(generated_files[r]) ]

\* Lines 207-213: what the summary prints; a line that is not printed is None.
Summary(r) ==
    [ converted |-> Len(generated_files[r]) - Len(already_converted_files[r]),
      already |-> IF already_converted_files[r] # <<>>
                  THEN Len(already_converted_files[r]) ELSE None,
      too_many_pages |-> IF pages_max[r] # None /\ skipped_files[r] # <<>>
                         THEN Len(skipped_files[r]) ELSE None,
      total |-> Len(generated_files[r]) ]

\* Lines 206-215: the loop is over; the summary is printed and
\* generated_files returned.
Finish(r) ==
    /\ pc[r] = "loop"
    /\ i[r] = Len(fullpath_list[r])
    /\ summary' = [summary EXCEPT ![r] = Summary(r)]
    /\ pc' = [pc EXCEPT ![r] = "done"]
    /\ UNCHANGED <<args, locals, console, files, env, renderer, extraction>>

Step(r) ==
    \/ RaiseValueError(r)
    \/ Prepare(r)
    \/ AlreadyConverted(r)
    \/ SkipTooLarge(r)
    \/ SkipUndetermined(r)
    \/ StartConversion(r)
    \/ ConvertSingle(r)
    \/ MoveMarkdown(r)
    \/ RelocateImage(r)
    \/ Success(r)
    \/ Cleanup(r)
    \/ Finish(r)

Next == \E r \in Runs : Step(r)

Spec == Init /\ [][Next]_vars

\* The call keeps running: the function is single-threaded and synchronous,
\* and every page probe and engine invocation returns or raises, so a step
\* that can be taken is taken.
SpecLive == Spec /\ WF_vars(Next)

\* ------------------------------------------------- the function called twice

\* The same call made again, on the same out_dir, once the first has
\* returned; force_rebuild is false.
InitTwice ==
    /\ InitRun
    /\ InitFiles
    /\ RendererIdle
    /\ ExtractorIdle
    /\ \E L \in RequestLists, pm \in PagesMaxValues :
        /\ fullpath_list = [r \in Runs |-> L[1]]
        /\ id_list = [r \in Runs |-> L[2]]
        /\ pages_max = [r \in Runs |-> pm]
    /\ force_rebuild = [r \in Runs |-> FALSE]
    /\ out_dir = [r \in Runs |-> 1]
    /\ after = [r \in Runs |-> r - 1]
    /\ pc = [r \in Runs |-> "start"]
    /\ pdf_env = AnyEnv
    /\ io_faults = TRUE

SpecTwice == InitTwice /\ [][Next]_vars

\* ------------------------------------- the function called without a request

RemoveAt(seq, k) == SubSeq(seq, 1, k - 1) \o SubSeq(seq, k + 1, Len(seq))

DistinctIds(ds) == \A a, b \in 1..Len(ds) : ds[a] = ds[b] => a = b

\* Each PDF has one page count and the engine does one thing with it: it
\* raises at once, or writes at most one image and the markdown.
FixedEnvs ==
    { [p \in Paths |-> [pages |-> {n[p]}, engine |-> {e[p]}]] :
        n \in [Paths -> PageCounts],
        e \in { f \in [Paths -> UNION { EngineResults(p) : p \in Paths }] :
                   \A p \in Paths :
                      /\ f[p] \in EngineResults(p)
                      /\ Cardinality(f[p].images) <= 1
                      /\ f[p].raises => f[p].images = {} } }

\* Run 1 is a call with requests of distinct ids and force_rebuild false;
\* run 2 is the same call with one request left out of both lists (or the
\* same call, when there is none to leave out), on a second output directory
\* that starts as a copy of the first.  Nothing but the engine fails.
InitOmit ==
    /\ InitRun
    /\ InitFiles
    /\ RendererIdle
    /\ ExtractorIdle
    /\ \E L \in RequestLists, pm \in PagesMaxValues :
        /\ DistinctIds(L[2])
        /\ Len(L[1]) = Len(L[2]) \/ L[1] = <<>>
        /\ pages_max = [r \in Runs |-> pm]
        /\ force_rebuild = [r \in Runs |-> FALSE]
        /\ IF Len(L[1]) = Len(L[2]) /\ Len(L[1]) > 0
           THEN \E k \in 1..Len(L[1]) :
                    /\ fullpath_list = [r \in Runs |-> IF r = 1 THEN L[1] ELSE RemoveAt(L[1], k)]
                    /\ id_list = [r \in Runs |-> IF r = 1 THEN L[2] ELSE RemoveAt(L[2], k)]
           ELSE /\ fullpath_list = [r \in Runs |-> L[1]]
                /\ id_list = [r \in Runs |-> L[2]]
    /\ out_dir = [r \in Runs |-> r]
    /\ after = [r \in Runs |-> r - 1]
    /\ pc = [r \in Runs |-> "start"]
    /\ pdf_env \in FixedEnvs
    /\ io_faults = FALSE

SpecOmit == InitOmit /\ [][Next]_vars

\* ------------------------------- the function called with the lists permuted

Reverse(seq) == [k \in 1..Len(seq) |-> seq[Len(seq) + 1 - k]]

\* Run 1 is a call with requests of distinct ids; run 2 is the same call with
\* both lists in the other order, on a second output directory that starts
\* as a copy of the first.  Nothing but the engine fails.
InitPermute ==
    /\ InitRun
    /\ InitFiles
    /\ RendererIdle
    /\ ExtractorIdle
    /\ \E L \in RequestLists, pm \in PagesMaxValues, fr \in BOOLEAN :
        /\ DistinctIds(L[2])
        /\ Len(L[1]) = Len(L[2]) \/ L[1] = <<>>
        /\ pages_max = [r \in Runs |-> pm]
        /\ force_rebuild = [r \in Runs |-> fr]
        /\ fullpath_list = [r \in Runs |-> IF r = 1 THEN L[1] ELSE Reverse(L[1])]
        /\ id_list = [r \in Runs |-> IF r = 1 THEN L[2] ELSE Reverse(L[2])]
    /\ out_dir = [r \in Runs |-> r]
    /\ after = [r \in Runs |-> r - 1]
    /\ pc = [r \in Runs |-> "start"]
    /\ pdf_env \in FixedEnvs
    /\ io_faults = FALSE

SpecPermute == InitPermute /\ [][Next]_vars

\* ------------------------------------------ two calls at the same time

\* Two calls on the same out_dir, of at most one request each, running side
\* by side.
InitConcurrent ==
    /\ InitRun
    /\ InitFiles
    /\ RendererIdle
    /\ ExtractorIdle
    /\ \E L1 \in RequestLists, L2 \in RequestLists, pm \in PagesMaxValues :
        /\ Len(L1[1]) <= 1 /\ Len(L1[2]) <= 1
        /\ Len(L2[1]) <= 1 /\ Len(L2[2]) <= 1
        /\ fullpath_list = [r \in Runs |-> IF r = 1 THEN L1[1] ELSE L2[1]]
        /\ id_list = [r \in Runs |-> IF r = 1 THEN L1[2] ELSE L2[2]]
        /\ pages_max = [r \in Runs |-> pm]
    /\ force_rebuild = [r \in Runs |-> FALSE]
    /\ out_dir = [r \in Runs |-> 1]
    /\ after = [r \in Runs |-> 0]
    /\ pc = [r \in Runs |-> "start"]
    /\ pdf_env = AnyEnv
    /\ io_faults = FALSE

SpecConcurrent == InitConcurrent /\ [][Next]_vars

\* ---------------------------------------------------- the annotation renderer

\* Most rows of the annotations CSV.
MaxRecords == 2

\* Largest attachment_id of a row.
MaxAttachment == 2

\* A missing cell as read_csv gives it (float nan); f"{nan}" is "nan", and
\* read_csv reads a cell holding that text, or nothing, as missing too.
NaN == "nan"

\* The page labels of the table, in the order sort_values puts them.
PageLabels == <<"1", "2">>

PageRank(page) == CHOOSE k \in 1..Len(PageLabels) : PageLabels[k] = page

\* The rows of the CSV; annotation_id is set to the row's place in the file.
Records ==
    [ annotation_id : {0},
      attachment_id : 1..MaxAttachment,
      page_label : {NaN} \cup { PageLabels[k] : k \in 1..Len(PageLabels) },
      annotation_type_name : {"highlight"},
      annotation_text : {NaN, "t"},
      annotation_comment : {NaN, "c"},
      annotation_color : {NaN, "#ffd400"} ]

Tables ==
    { [k \in 1..Len(t) |-> [t[k] EXCEPT !.annotation_id = k]] :
        t \in SeqsOver(Records, MaxRecords) }

\* annot.query(f"attachment_id == {attachment_id}")
query(table, id) == SelectSeq(table, LAMBDA rec : rec.attachment_id = id)

\* annot_sel.empty taken to be never true.
empty_never(sel) == FALSE

\* annot_sel.empty
empty(sel) == sel = <<>>

isna(v) == v = NaN

\* The orders of the rows that sort_values('page_label', na_position='last')
\* may give with its default kind, quicksort, which is not stable: the rows
\* with a label come first, ascending, those of equal label in any order;
\* the rows without a label follow in the order they had.
Orders(seq) ==
    { [k \in 1..Len(seq) |-> seq[f[k]]] :
        f \in { g \in [1..Len(seq) -> 1..Len(seq)] :
                  \A a, b \in 1..Len(seq) : g[a] = g[b] => a = b } }

sort_values(sel) ==
    LET labelled == SelectSeq(sel, LAMBDA rec : ~isna(rec.page_label))
        nans == SelectSeq(sel, LAMBDA rec : isna(rec.page_label))
    IN  { s \o nans :
            s \in { q \in Orders(labelled) :
                      \A k \in 1..(Len(q) - 1) :
                         PageRank(q[k].page_label) <= PageRank(q[k + 1].page_label) } }

\* sorted(annot['attachment_id'].unique())
RECURSIVE Ascending(_)
Ascending(S) ==
    IF S = {} THEN <<>>
    ELSE LET least == CHOOSE x \in S : \A y \in S : x <= y
         IN  <<least>> \o Ascending(S \ {least})

unique_sorted(table) ==
    Ascending({ table[k].attachment_id : k \in 1..Len(table) })

\* One appended piece of markdown_content: what it is, the annotation it
\* belongs to (0: none) and the value it shows.
Line(kind, of, text) == [kind |-> kind, of |-> of, text |-> text]

\* Lines 49-53: title, attachment id, paper id, file path, rule.
Header(id) == << Line("header", 0, ToString(id)) >>

\* Python's truth value of a cell: nan is a non-zero float, hence true.
truthy(v) == v # ""

\* pd.notna
notna(v) == ~isna(v)

\* page != current_page, where nan differs from everything, itself included.
new_page(page, current) ==
    \/ current = <<>>
    \/ isna(page)
    \/ page # current[1]

\* Lines 65-69: the page header, after a blank line unless it is the first.
PageHeader(page, current) ==
    IF new_page(page, current)
    THEN (IF current # <<>> THEN << Line("blank", 0, "") >> ELSE <<>>)
         \o << Line("page", 0, page) >>
    ELSE <<>>

\* str.title() of the annotation type.
title(type) == IF type = "highlight" THEN "Highlight" ELSE type

\* Lines 72-75: the type and, if annotation_color is true, the colour tag.
TypeLine(rec) ==
    << Line("type", rec.annotation_id, title(rec.annotation_type_name)) >>
    \o (IF truthy(rec.annotation_color)
        THEN << Line("color", rec.annotation_id, rec.annotation_color) >>
        ELSE <<>>)

\* The test of lines 77 and 80 without pd.notna.
shown_if_truthy(v) == truthy(v)

\* Lines 77 and 80: annotation_text and pd.notna(annotation_text)
shown(v) == truthy(v) /\ notna(v)

\* Lines 77-83: text, comment and the closing rule.
Body(rec) ==
    (IF shown(rec.annotation_text)
     THEN << Line("text", rec.annotation_id, rec.annotation_text) >> ELSE <<>>)
    \o (IF shown(rec.annotation_comment)
        THEN << Line("comment", rec.annotation_id, rec.annotation_comment) >> ELSE <<>>)
    \o << Line("rule", rec.annotation_id, "") >>

Entries == {"annotations_to_markdown", "convert_single_annotation_by_id",
            "process_all_attachments", "convert_all_annotations"}

\* The entry points that render every attachment of the table.
Batch == {"process_all_attachments", "convert_all_annotations"}

\* One call of one of the entry points, on any table, with any output
\* directory state.  The converter is not called.
InitRenderer ==
    /\ csv_exists \in BOOLEAN
    /\ annot \in (IF csv_exists THEN Tables ELSE { <<>> })
    /\ entry \in Entries
    /\ attachment_id = (IF entry \in Batch THEN None ELSE 1)
    /\ annot_sel = <<>>
    /\ row = 0
    /\ current_page = <<>>
    /\ markdown_content = <<>>
    /\ attachment_ids = <<>>
    /\ results = EmptyFn
    /\ rc = "start"
    /\ result = None
    /\ output_dir_exists \in BOOLEAN
    /\ output_files = EmptyFn
    /\ ExtractorIdle
    /\ InitRun
    /\ fullpath_list = [r \in Runs |-> <<>>]
    /\ id_list = [r \in Runs |-> <<>>]
    /\ pages_max = [r \in Runs |-> None]
    /\ force_rebuild = [r \in Runs |-> FALSE]
    /\ out_dir = [r \in Runs |-> 1]
    /\ after = [r \in Runs |-> 0]
    /\ pc = [r \in Runs |-> "off"]
    /\ out_exists = [d \in OutDirs |-> FALSE]
    /\ md_files = [d \in OutDirs |-> EmptyFn]
    /\ image_files = [d \in OutDirs |-> EmptyFn]
    /\ temp_dirs = [d \in OutDirs |-> EmptyFn]
    /\ pdf_env = AnyEnv
    /\ io_faults = FALSE

converter == <<args, locals, pc, output, files, env>>

\* Lines 41-56: the rows are sorted, the header appended, current_page None.
BeginDocument(id, sel) ==
    /\ attachment_id' = id
    /\ annot_sel' \in sort_values(sel)
    /\ markdown_content' = Header(id)
    /\ current_page' = <<>>
    /\ row' = 0
    /\ rc' = "rows"

\* Lines 257-275: convert_single_annotation_by_id reads the CSV and selects
\* the rows itself; it returns None when the file is missing or no row
\* matches, and else calls annotations_to_markdown.
ConvertSingleAnnotation ==
    /\ rc = "start"
    /\ entry = "convert_single_annotation_by_id"
    /\ IF ~csv_exists \/ empty(query(annot, attachment_id))
       THEN rc' = "returned"
       ELSE rc' = "inner"
    /\ UNCHANGED <<csv_exists, annot, entry, attachment_id, annot_sel, row,
                   current_page, markdown_content, attachment_ids, results,
                   result, output_dir_exists, output_files, converter, extraction>>

\* Lines 27-56: annotations_to_markdown raises when the CSV is missing,
\* returns None when no row matches, and else starts the document.
AnnotationsToMarkdown ==
    /\ \/ rc = "start" /\ entry = "annotations_to_markdown"
       \/ rc = "inner"
    /\ IF ~csv_exists
       THEN /\ rc' = "raised"
            /\ UNCHANGED <<attachment_id, annot_sel, row, current_page,
                           markdown_content>>
       ELSE IF empty(query(annot, attachment_id))
       THEN /\ rc' = "returned"
            /\ UNCHANGED <<attachment_id, annot_sel, row, current_page,
                           markdown_content>>
       ELSE BeginDocument(attachment_id, query(annot, attachment_id))
    /\ UNCHANGED <<csv_exists, annot, entry, attachment_ids, results, result,
                   output_dir_exists, output_files, converter, extraction>>

\* Lines 302-325: convert_all_annotations reads the CSV itself; it returns
\* an empty dict when the file is missing or the table has no attachment,
\* and else calls process_all_attachments.
ConvertAllAnnotations ==
    /\ rc = "start"
    /\ entry = "convert_all_annotations"
    /\ IF ~csv_exists \/ unique_sorted(annot) = <<>>
       THEN rc' = "returned"
       ELSE rc' = "all"
    /\ UNCHANGED <<csv_exists, annot, entry, attachment_id, annot_sel, row,
                   current_page, markdown_content, attachment_ids, results,
                   result, output_dir_exists, output_files, converter, extraction>>

\* Lines 111-131: process_all_attachments raises when the CSV is missing;
\* else it takes the ids of the table in ascending order and creates the
\* output directory.
ProcessAll ==
    /\ \/ rc = "start" /\ entry = "process_all_attachments"
       \/ rc = "all"
    /\ IF ~csv_exists
       THEN /\ rc' = "raised"
            /\ UNCHANGED <<attachment_ids, output_dir_exists>>
       ELSE /\ attachment_ids' = unique_sorted(annot)
            /\ output_dir_exists' = TRUE
            /\ rc' = "next"
    /\ UNCHANGED <<csv_exists, annot, entry, attachment_id, annot_sel, row,
                   current_page, markdown_content, results, result,
                   output_files, converter, extraction>>

\* Lines 133-162: the next attachment id of the loop.
NextAttachment ==
    /\ rc = "next"
    /\ attachment_ids # <<>>
    /\ BeginDocument(Head(attachment_ids), query(annot, Head(attachment_ids)))
    /\ UNCHANGED <<csv_exists, annot, entry, attachment_ids, results, result,
                   output_dir_exists, output_files, converter, extraction>>

\* Lines 57-83 (163-189): one pass of the loop over the sorted rows.
RenderRow ==
    /\ rc = "rows"
    /\ row < Len(annot_sel)
    /\ LET rec == annot_sel[row + 1]
       IN  /\ markdown_content' = markdown_content
                \o PageHeader(rec.page_label, current_page)
                \o TypeLine(rec) \o Body(rec)
           /\ current_page' = IF new_page(rec.page_label, current_page)
                              THEN <<rec.page_label>> ELSE current_page
    /\ row' = row + 1
    /\ UNCHANGED <<csv_exists, annot, entry, attachment_id, annot_sel,
                   attachment_ids, results, rc, result, output_dir_exists,
                   output_files, converter, extraction>>

\* Lines 85-97 (191-203): the file <attachment_id>.md is written; the single
\* function creates the output directory first and returns the path, the
\* batch records success and goes on.
WriteMarkdown ==
    /\ rc = "rows"
    /\ row = Len(annot_sel)
    /\ output_dir_exists' = TRUE
    /\ output_files' = Put(output_files, attachment_id, markdown_content)
    /\ IF entry \in Batch
       THEN /\ results' = Put(results, attachment_id, "success")
            /\ attachment_ids' = Tail(attachment_ids)
            /\ rc' = "next"
            /\ UNCHANGED result
       ELSE /\ result' = attachment_id
            /\ rc' = "returned"
            /\ UNCHANGED <<results, attachment_ids>>
    /\ UNCHANGED <<csv_exists, annot, entry, attachment_id, annot_sel, row,
                   current_page, markdown_content, converter, extraction>>

\* Lines 210-222: the loop is over; results is returned.
ReturnResults ==
    /\ rc = "next"
    /\ attachment_ids = <<>>
    /\ rc' = "returned"
    /\ UNCHANGED <<csv_exists, annot, entry, attachment_id, annot_sel, row,
                   current_page, markdown_content, attachment_ids, results,
                   result, output_dir_exists, output_files, converter, extraction>>

NextRenderer ==
    \/ ConvertSingleAnnotation
    \/ ConvertAllAnnotations
    \/ AnnotationsToMarkdown
    \/ ProcessAll
    \/ NextAttachment
    \/ RenderRow
    \/ WriteMarkdown
    \/ ReturnResults

SpecRenderer == InitRenderer /\ [][NextRenderer]_vars

\* ------------------------------------------------------------ the extractors

Extractors == {"extract_zotero_data", "extract_zotero_annotations"}

\* What may go wrong with a database file that exists: nothing, the
\* connection, the query, or the writing of the CSV.
DbFaults == {"none", "connect", "query", "write"}

\* The converter is not called.
ConverterIdle ==
    /\ InitRun
    /\ fullpath_list = [r \in Runs |-> <<>>]
    /\ id_list = [r \in Runs |-> <<>>]
    /\ pages_max = [r \in Runs |-> None]
    /\ force_rebuild = [r \in Runs |-> FALSE]
    /\ out_dir = [r \in Runs |-> 1]
    /\ after = [r \in Runs |-> 0]
    /\ pc = [r \in Runs |-> "off"]
    /\ out_exists = [d \in OutDirs |-> FALSE]
    /\ md_files = [d \in OutDirs |-> EmptyFn]
    /\ image_files = [d \in OutDirs |-> EmptyFn]
    /\ temp_dirs = [d \in OutDirs |-> EmptyFn]
    /\ pdf_env = AnyEnv
    /\ io_faults = FALSE

\* One call of one extractor, on a database that is missing or holds any
\* records, with no CSV written before.
InitExtract ==
    /\ extractor \in Extractors
    /\ db_exists \in BOOLEAN
    /\ db_fault \in (IF db_exists THEN DbFaults ELSE {"none"})
    /\ attachment_records \in
          (IF db_exists /\ extractor = "extract_zotero_data"
           THEN SeqsOver(1..MaxAttachment, MaxRecords) ELSE { <<>> })
    /\ annotation_rows \in
          (IF db_exists /\ extractor = "extract_zotero_annotations"
           THEN Tables ELSE { <<>> })
    /\ xc = "start"
    /\ conn = "none"
    /\ metadata_csv = <<>>
    /\ output_csv = <<>>
    /\ success = FALSE
    /\ RendererIdle
    /\ ConverterIdle

\* The test of lines 70 (45) taken to be never true.
database_missing_never == FALSE

\* Lines 70 (45): not Path(db_path).exists()
database_missing == ~db_exists

\* fetchall() of the extractor's query.
fetchall == IF extractor = "extract_zotero_data"
            THEN attachment_records ELSE annotation_rows

\* Lines 104-110 of extract_zotero_annotations.py: a NULL text or comment
\* becomes the empty string.
fillna(v) == IF isna(v) THEN "" ELSE v

cleaned(rows) ==
    [k \in 1..Len(rows) |->
        [rows[k] EXCEPT !.annotation_text = fillna(@),
                        !.annotation_comment = fillna(@)]]

\* Lines 69-72 (44-47): the database file is looked for.
CheckDatabase ==
    /\ xc = "start"
    /\ IF database_missing
       THEN xc' = "returned"
       ELSE xc' = "connect"
    /\ UNCHANGED <<db_exists, db_fault, attachment_records, annotation_rows,
                   extractor, conn, metadata_csv, output_csv, success,
                   converter, renderer>>

\* Lines 76-77 (51-52): sqlite3.connect, read-only.
Connect ==
    /\ xc = "connect"
    /\ IF db_fault = "connect" \/ ~db_exists
       THEN xc' = "except" /\ UNCHANGED conn
       ELSE xc' = "query" /\ conn' = "open"
    /\ UNCHANGED <<db_exists, db_fault, attachment_records, annotation_rows,
                   extractor, metadata_csv, output_csv, success,
                   converter, renderer>>

\* Lines 154-231 (87-152): the query is run; records, if there are any, are
\* written to the CSV and True is returned; with none, False.
QueryAndWrite ==
    /\ xc = "query"
    /\ IF db_fault = "query" \/ (db_fault = "write" /\ fetchall # <<>>)
       THEN /\ xc' = "except"
            /\ UNCHANGED <<metadata_csv, output_csv, success>>
       ELSE /\ xc' = "finally"
            /\ success' = (fetchall # <<>>)
            /\ IF extractor = "extract_zotero_data"
               THEN metadata_csv' = fetchall /\ UNCHANGED output_csv
               ELSE output_csv' = cleaned(fetchall) /\ UNCHANGED metadata_csv
    /\ UNCHANGED <<db_exists, db_fault, attachment_records, annotation_rows,
                   extractor, conn, converter, renderer>>

\* Lines 233-238 (154-161): the except clauses return False.
ExtractFailed ==
    /\ xc = "except"
    /\ success' = FALSE
    /\ xc' = "finally"
    /\ UNCHANGED <<db_exists, db_fault, attachment_records, annotation_rows,
                   extractor, conn, metadata_csv, output_csv,
                   converter, renderer>>

\* Lines 239-241 (162-164): the finally clause closes the connection if
\* there is one; the function returns.
CloseAndReturn ==
    /\ xc = "finally"
    /\ conn' = IF conn = "open" THEN "closed" ELSE conn
    /\ xc' = "returned"
    /\ UNCHANGED <<db_exists, db_fault, attachment_records, annotation_rows,
                   extractor, metadata_csv, output_csv, success,
                   converter, renderer>>

NextExtract ==
    \/ CheckDatabase
    \/ Connect
    \/ QueryAndWrite
    \/ ExtractFailed
    \/ CloseAndReturn

\* One call of a stage that reads an input file: an extractor on the
\* database, or an entry point of the renderer on the annotations CSV.
InitStages == InitExtract \/ InitRenderer

NextStages == NextExtract \/ NextRenderer

SpecStages == InitStages /\ [][NextStages]_vars

\* ------------------------------------------------------------------ claims

\* The outcome lines a run has printed, one per request it is through with.
Outcomes(r) == SelectSeq(console[r], LAMBDA line : line # "Converting")

\* The number of times a run has called the converter.
Conversions(r) == Len(console[r]) - Len(Outcomes(r))

\* Run r takes a step of its loop.
Steps(r) == <<pc[r], i[r]>> # <<pc'[r], i'[r]>>

\* The markdown file name of the request at position k (from 1) of run r.
MdNameAt(r, k) == final_md_name(fullpath_list[r][k], id_list[r][k])

InTry(r) == pc[r] \in {"convert", "move", "relocate", "finally"}

\* C1 (resumability): when the loop reaches a request whose markdown file
\* exists and force_rebuild is false, its step records the request as already
\* converted: the path is appended to the returned list, nothing is probed,
\* the converter is not called and no file changes; and the file of a request
\* so recorded is never changed later in the run.
C1_Resumability ==
    [][\A r \in Runs :
        /\ ( /\ pc[r] = "loop"
             /\ i[r] < Len(fullpath_list[r])
             /\ ~force_rebuild[r]
             /\ MdNameAt(r, i[r] + 1) \in DOMAIN md_files[out_dir[r]]
             /\ Steps(r) )
           => /\ pc'[r] = "loop"
              /\ i'[r] = i[r] + 1
              /\ console'[r] = Append(console[r], "Already converted")
              /\ generated_files'[r] = Append(generated_files[r], MdNameAt(r, i[r] + 1))
              /\ page_count'[r] = page_count[r]
              /\ files' = files
        /\ \A k \in 1..Len(Outcomes(r)) :
              Outcomes(r)[k] = "Already converted"
              => /\ MdNameAt(r, k) \in DOMAIN md_files'[out_dir[r]]
                 /\ md_files'[out_dir[r]][MdNameAt(r, k)] = md_files[out_dir[r]][MdNameAt(r, k)]
    ]_vars

\* C1 witness: with a page limit set, the second request was found already
\* converted after the first was converted; its old file is as it was and
\* no page count was ever probed for it.
C1_Witness ==
    /\ pc[1] = "done"
    /\ pages_max[1] # None
    /\ Outcomes(1) = <<"Successfully converted", "Already converted">>
    /\ md_files[1][MdNameAt(1, 2)] = OldContent
    /\ generated_files[1] = <<MdNameAt(1, 1), MdNameAt(1, 2)>>

\* C3 (continuation): a run whose lists match in length never raises; every
\* request the loop is through with has its outcome, whatever happened to
\* the requests before it, and a run that has returned is through with all.
C3_Continuation ==
    \A r \in Runs :
        /\ pc[r] = "raised" => Len(id_list[r]) # Len(fullpath_list[r])
        /\ pc[r] = "loop" => Len(Outcomes(r)) = i[r]
        /\ pc[r] = "done" => Len(Outcomes(r)) = Len(fullpath_list[r])

\* C3 witness: the first request failed and the second was still converted.
C3_Witness ==
    /\ pc[1] = "done"
    /\ Outcomes(1) = <<"Error converting", "Successfully converted">>

Count(seq, line) == Len(SelectSeq(seq, LAMBDA x : x = line))

\* A count the summary printed; a line it did not print counts nothing.
Printed(n) == IF n = None THEN 0 ELSE n

C6_PageLimitBoundary ==
    [][\A r \in Runs :
        ( /\ pc[r] = "loop"
          /\ i[r] < Len(fullpath_list[r])
          /\ pages_max[r] # None
          /\ ~(~force_rebuild[r] /\ MdNameAt(r, i[r] + 1) \in DOMAIN md_files[out_dir[r]])
          /\ Steps(r) )
        => /\ page_count'[r] \in 1..pages_max[r]
              => /\ pc'[r] = "convert"
                 /\ console'[r] = Append(console[r], "Converting")
           /\ page_count'[r] >= pages_max[r] + 1
              => /\ pc'[r] = "loop"
                 /\ i'[r] = i[r] + 1
                 /\ console'[r] = Append(console[r], "Skipping (pages limit)")
                 /\ skipped_files'[r] = Append(skipped_files[r], fullpath_list[r][i[r] + 1])
                 /\ generated_files'[r] = generated_files[r]
    ]_vars

\* C6 witness: the first request was skipped as too large and the second,
\* of exactly pages_max pages, is being converted.
C6_Witness ==
    /\ pc[1] = "convert"
    /\ i[1] = 1
    /\ console[1] = <<"Skipping (pages limit)", "Converting">>
    /\ page_count[1] = pages_max[1]

\* C7 as claimed: in the summary of a run with a page limit the count of
\* requests skipped for too many pages is the number of requests whose
\* page count was over the limit; the undetermined ones are kept apart.
C7_UndeterminedKeptDistinct ==
    \A r \in Runs :
        (pc[r] = "done" /\ pages_max[r] # None)
        => Printed(summary[r].too_many_pages) = Count(Outcomes(r), "Skipping (pages limit)")

\* C8 (working directory cleanup): a temp_<n> directory of out_dir is either
\* the working directory of the request the run is converting, or a
\* directory that was there before the run and that the run has not used;
\* so none made or used by the run is left when the next request starts or
\* when the run returns.
C8_TempCleanup ==
    \A r \in Runs :
        pc[r] \in {"loop", "convert", "move", "relocate", "finally", "done"}
        => \A t \in DOMAIN temp_dirs[out_dir[r]] :
            \/ InTry(r) /\ t = i[r]
            \/ /\ temp_dirs[out_dir[r]][t] = StaleTemp
               /\ \/ t >= i[r]
                  \/ Outcomes(r)[t + 1] \in
                        {"Already converted", "Skipping (pages limit)",
                         "Skipping (could not determine page count)"}

\* C8 witness: the first request failed, its temp_0 is gone, and the second
\* request has its own temp_1.
C8_Witness ==
    /\ pc[1] = "move"
    /\ i[1] = 1
    /\ Outcomes(1) = <<"Error converting">>
    /\ DOMAIN temp_dirs[1] = {1}

\* C10 as claimed (image-reference integrity): when a request ends in
\* success, every image reference of its markdown reads as the prefixed
\* name of the image it referred to, and that file is in images/.
C10_ImageReferences ==
    \A r \in Runs :
        (pc[r] = "finally" /\ console[r][Len(console[r])] = "Successfully converted")
        => LET content == md_files[out_dir[r]][MdNameAt(r, i[r] + 1)]
           IN \A ref \in DOMAIN content :
                /\ content[ref] = new_image_name(pdf_id(r), ref)
                /\ content[ref] \in DOMAIN image_files[out_dir[r]]

Succeeded(line) == line \in {"Successfully converted", "Already converted"}

MdOf(d, name) == IF name \in DOMAIN md_files[d] THEN {md_files[d][name]} ELSE {}

ImagesOf(d, id) ==
    { <<n, image_files[d][n].name>> :
        n \in { m \in DOMAIN image_files[d] : IsPrefix(<<ToString(id), "_">>, m) } }

\* C4 as claimed (isolation): when request k of run 1 failed and run 2 is
\* run 1 without request k on a copy of the same initial directory, every
\* other request has the same outcome, the same markdown and the same
\* images in both.
C4_Isolation ==
    (pc[1] = "done" /\ pc[2] = "done")
    => \A k \in 1..Len(fullpath_list[1]) :
        ( /\ fullpath_list[2] = RemoveAt(fullpath_list[1], k)
          /\ id_list[2] = RemoveAt(id_list[1], k)
          /\ Outcomes(1)[k] = "Error converting" )
        => \A j \in (1..Len(fullpath_list[1])) \ {k} :
            LET j2 == IF j < k THEN j ELSE j - 1
            IN  /\ Outcomes(2)[j2] = Outcomes(1)[j]
                /\ MdOf(2, MdNameAt(2, j2)) = MdOf(1, MdNameAt(1, j))
                /\ ImagesOf(2, id_list[2][j2]) = ImagesOf(1, id_list[1][j])

\* C9 as claimed (no collision between concurrent runs): while a run is
\* between the conversion of a request and the cleanup, its working
\* directory exists and holds nothing that the other run wrote.
C9_NoCollision ==
    \A r \in Runs :
        pc[r] \in {"move", "relocate"}
        => /\ TempExists(r)
           /\ \A f \in DOMAIN temp_dirs[out_dir[r]][i[r]].images :
                temp_dirs[out_dir[r]][i[r]].images[f].run \in {0, r}

\* The request run r stands at has just ended in success (line 197); its
\* working directory is still there.
JustSucceeded(r) ==
    /\ pc[r] = "finally"
    /\ console[r][Len(console[r])] = "Successfully converted"

\* C11 as claimed (image relocation is complete): when a request has ended
\* in success, no image that its conversion wrote is left in the working
\* directory that the finally clause is about to delete, and every image of
\* the request in images/ has the prefixed name.
C11_RelocationComplete ==
    \A r \in Runs :
        JustSucceeded(r)
        => /\ TempExists(r)
              => \A f \in DOMAIN temp_dirs[out_dir[r]][i[r]].images :
                    temp_dirs[out_dir[r]][i[r]].images[f] # Written(r, f)
           /\ \A n \in DOMAIN image_files[out_dir[r]] :
                LET by == image_files[out_dir[r]][n]
                IN  (by.run = r /\ by.pos = i[r]) =>
                        n = new_image_name(pdf_id(r), by.name)

\* The markdown names of the first n requests of run r that ended converted
\* or already converted, in input order.
RECURSIVE SucceededNames(_, _)
SucceededNames(r, n) ==
    IF n = 0 THEN <<>>
    ELSE IF Succeeded(Outcomes(r)[n])
         THEN Append(SucceededNames(r, n - 1), MdNameAt(r, n))
         ELSE SucceededNames(r, n - 1)

\* C12 (the returned list): between requests and at the return,
\* generated_files holds, in input order, exactly the markdown names of the
\* requests that were already converted or newly converted, none of a
\* skipped or failed request, and each names a file that is in out_dir.
C12_ReturnedList ==
    \A r \in Runs :
        pc[r] \in {"loop", "done"}
        => /\ generated_files[r] = SucceededNames(r, Len(Outcomes(r)))
           /\ \A k \in 1..Len(generated_files[r]) :
                generated_files[r][k] \in DOMAIN md_files[out_dir[r]]

\* C12 witness: the first request was skipped, the second converted, and
\* the call returned the path of the second alone.
C12_Witness ==
    /\ pc[1] = "done"
    /\ Outcomes(1) = <<"Skipping (pages limit)", "Successfully converted">>
    /\ generated_files[1] = <<MdNameAt(1, 2)>>
    /\ MdNameAt(1, 2) \in DOMAIN md_files[1]

\* C13 (identifier-prefixing avoids collisions): two requests of a run with
\* distinct ids have distinct markdown names, and a step of the run replaces
\* an image that an earlier request of the run relocated to images/ only
\* when that request had the id of the present one.
C13_PrefixAvoidsCollisions ==
    [][\A r \in Runs :
        /\ \A j, k \in 1..Len(fullpath_list[r]) :
              (j <= Len(id_list[r]) /\ k <= Len(id_list[r])
                 /\ id_list[r][j] # id_list[r][k])
              => MdNameAt(r, j) # MdNameAt(r, k)
        /\ \A n \in DOMAIN image_files[out_dir[r]] :
              LET old == image_files[out_dir[r]][n]
              IN  ( /\ pc[r] = "relocate"
                    /\ Steps(r) \/ listing'[r] # listing[r]
                    /\ old.run = r
                    /\ old.pos # i[r]
                    /\ image_files'[out_dir[r]][n] # old )
                  => id_list[r][old.pos + 1] = pdf_id(r)
    ]_vars

\* C13 witness: the same PDF converted under ids 1 and 2; the image of each
\* is in images/ under its own prefix.
C13_Witness ==
    /\ pc[1] = "done"
    /\ id_list[1] = <<1, 2>>
    /\ fullpath_list[1] = << <<"d1", "a", ".pdf">>, <<"d1", "a", ".pdf">> >>
    /\ <<"1", "_", "a", ".png">> \in DOMAIN image_files[1]
    /\ <<"2", "_", "a", ".png">> \in DOMAIN image_files[1]
    /\ image_files[1][<<"1", "_", "a", ".png">>] = [run |-> 1, pos |-> 0, name |-> <<"a", ".png">>]
    /\ image_files[1][<<"2", "_", "a", ".png">>] = [run |-> 1, pos |-> 1, name |-> <<"a", ".png">>]

\* The images directory of an output directory: each file name with the
\* name the engine gave the image.
ImagesDir(d) == [n \in DOMAIN image_files[d] |-> image_files[d][n].name]

\* C14 as claimed (order independence): when run 2 is run 1 with the
\* requests, of distinct ids, in the other order on a copy of the same
\* initial directory, both leave the same markdown files and the same
\* images directory.
C14_OrderIndependence ==
    (pc[1] = "done" /\ pc[2] = "done")
    => /\ md_files[1] = md_files[2]
       /\ ImagesDir(1) = ImagesDir(2)

\* C15 as claimed (converter failure atomicity): when the engine raises
\* inside convert_single_pdf_to_md, the call leaves in its output directory
\* no markdown and no image that it wrote.
C15_FailureAtomicity ==
    [][\A r \in Runs :
        (pc[r] = "convert" /\ pc'[r] = "finally")
        => LET dir == temp_dirs'[out_dir[r]][temp_dir(r)]
           IN  /\ final_md_name(pdf_path(r), pdf_id(r)) \notin DOMAIN dir.md
               /\ \A f \in DOMAIN dir.images : dir.images[f] # Written(r, f)
    ]_vars

\* Row a may stand before row b in the stable order of the claim: by page
\* label ascending, rows without a label last, and rows of equal label (or
\* both without) in the order of the table.
InOrder(a, b) ==
    IF isna(a.page_label)
    THEN isna(b.page_label) /\ a.annotation_id < b.annotation_id
    ELSE \/ isna(b.page_label)
         \/ PageRank(a.page_label) < PageRank(b.page_label)
         \/ /\ a.page_label = b.page_label
            /\ a.annotation_id < b.annotation_id

\* C16 as claimed (annotation ordering): the rows the renderer loops over
\* are in page_label order, those without a label last, and rows of equal
\* or missing label keep the relative order they had in the table.
C16_StableOrdering ==
    rc = "rows"
    => \A j, k \in 1..Len(annot_sel) :
          j < k => InOrder(annot_sel[j], annot_sel[k])

\* The page section headers of a rendered file, in order.
PageSections(content) == SelectSeq(content, LAMBDA line : line.kind = "page")

\* The page values of the rows of an attachment.
PageValues(id) ==
    { query(annot, id)[k].page_label : k \in 1..Len(query(annot, id)) }

\* C17 as claimed (page sections): a rendered file has one page header per
\* distinct page value of its rows, no value twice, the labels ascending
\* and the section of the rows without a label, if any, last.
C17_OneSectionPerPage ==
    \A id \in DOMAIN output_files :
        LET sections == PageSections(output_files[id])
        IN  /\ { sections[k].text : k \in 1..Len(sections) } = PageValues(id)
            /\ \A j, k \in 1..Len(sections) :
                 j < k => /\ sections[j].text # sections[k].text
                          /\ ~isna(sections[j].text)
                          /\ \/ isna(sections[k].text)
                             \/ PageRank(sections[j].text) < PageRank(sections[k].text)

\* The lines of a kind that a content has for an annotation.
LinesOf(content, kind, of) ==
    SelectSeq(content, LAMBDA line : line.kind = kind /\ line.of = of)

\* C18 (empty text and comment are omitted): every Text line of the markdown
\* being built shows the text of its row, which is present and not empty,
\* and every Comment line the comment of its row, present and not empty; a
\* row whose text (comment) is missing has no Text (Comment) line.
C18_EmptyFieldsOmitted ==
    /\ \A n \in 1..Len(markdown_content) :
        LET line == markdown_content[n]
        IN  /\ line.kind = "text"
               => /\ line.text = annot[line.of].annotation_text
                  /\ ~isna(line.text) /\ line.text # ""
            /\ line.kind = "comment"
               => /\ line.text = annot[line.of].annotation_comment
                  /\ ~isna(line.text) /\ line.text # ""
    /\ \A k \in 1..Len(annot) :
        /\ isna(annot[k].annotation_text)
           => LinesOf(markdown_content, "text", k) = <<>>
        /\ isna(annot[k].annotation_comment)
           => LinesOf(markdown_content, "comment", k) = <<>>

\* C18 witness: a file was written for a row with a text and no comment; it
\* has the Text line and no Comment line.
C18_Witness ==
    /\ rc = "returned"
    /\ 1 \in DOMAIN output_files
    /\ Len(annot) = 1
    /\ annot[1].annotation_text = "t"
    /\ isna(annot[1].annotation_comment)
    /\ LinesOf(output_files[1], "text", 1) = << Line("text", 1, "t") >>
    /\ LinesOf(output_files[1], "comment", 1) = <<>>

\* C19 as claimed (the colour tag is optional): a colour tag is rendered
\* for an annotation only when its row has a colour, and none when the
\* colour is missing or empty.
C19_ColorTagOptional ==
    /\ \A n \in 1..Len(markdown_content) :
        LET line == markdown_content[n]
        IN  line.kind = "color"
            => /\ line.text = annot[line.of].annotation_color
               /\ ~isna(line.text) /\ line.text # ""
    /\ \A k \in 1..Len(annot) :
        isna(annot[k].annotation_color)
        => LinesOf(markdown_content, "color", k) = <<>>

\* C20 (an empty result is a no-op): when the CSV is there and no row of it
\* has the requested attachment_id, a step of annotations_to_markdown or of
\* convert_single_annotation_by_id returns None without raising, and
\* creates neither a file nor the output directory.
C20_EmptyResultNoOp ==
    [][( /\ entry \in {"annotations_to_markdown", "convert_single_annotation_by_id"}
         /\ csv_exists
         /\ Len(query(annot, attachment_id)) = 0 )
       => /\ rc' = "returned"
          /\ result' = None
          /\ output_files' = output_files
          /\ output_dir_exists' = output_dir_exists
    ]_vars

\* C20 witness: convert_single_annotation_by_id has returned None for a
\* table whose rows are all of another attachment; no directory, no file.
C20_Witness ==
    /\ rc = "returned"
    /\ entry = "convert_single_annotation_by_id"
    /\ csv_exists
    /\ Len(annot) = 2
    /\ Len(query(annot, attachment_id)) = 0
    /\ result = None
    /\ ~output_dir_exists
    /\ output_files = EmptyFn

\* C21: a stage whose input file is missing stops without output.  Called on
\* a database file that does not exist, extract_zotero_data and
\* extract_zotero_annotations return False in their first step, with no
\* connection opened and no CSV written; called on an annotations CSV that
\* does not exist, convert_all_annotations returns an empty result and
\* convert_single_annotation_by_id returns None in their first step, with no
\* markdown file written.
C21_MissingInputAborts ==
    [][/\ (xc = "start" /\ ~db_exists)
            => /\ xc' = "returned"
               /\ success' = FALSE
               /\ conn' = "none"
               /\ metadata_csv' = <<>>
               /\ output_csv' = <<>>
       /\ (rc = "start" /\ ~csv_exists /\ entry = "convert_all_annotations")
            => /\ rc' = "returned"
               /\ results' = EmptyFn
               /\ output_files' = output_files
       /\ (rc = "start" /\ ~csv_exists
              /\ entry = "convert_single_annotation_by_id")
            => /\ rc' = "returned"
               /\ result' = None
               /\ output_files' = output_files]_vars

\* An extractor has returned False on a missing database, with no connection
\* and no CSV.
C21_Witness ==
    /\ xc = "returned"
    /\ extractor \in Extractors
    /\ ~db_exists
    /\ success = FALSE
    /\ conn = "none"
    /\ metadata_csv = <<>>
    /\ output_csv = <<>>

\* The files of directory d (markdown, images, and images of working
\* directories) that were there before the first run.
OldFiles(d) ==
    { <<"md", n>> : n \in { m \in DOMAIN md_files[d] : md_files[d][m] = OldContent } }
    \cup { <<"image", n>> :
             n \in { m \in DOMAIN image_files[d] : image_files[d][m].run = 0 } }
    \cup { <<"temp", t>> :
             t \in { u \in DOMAIN temp_dirs[d] :
                       \E m \in DOMAIN temp_dirs[d][u].images :
                           temp_dirs[d][u].images[m].run = 0 } }

\* C22 (force_rebuild): once a run with force_rebuild true, whose lists have
\* the same length, has passed its preparation, the output directory exists
\* and holds no file that was there before the run; the run records and
\* reports no request as already converted; and between requests every
\* request it is through with was either skipped at the page probe or handed
\* to the converter.
C22_ForceRebuild ==
    \A r \in Runs :
        (force_rebuild[r] /\ pc[r] \notin {"off", "start", "raised"})
        => /\ out_exists[out_dir[r]]
           /\ OldFiles(out_dir[r]) = {}
           /\ already_converted_files[r] = <<>>
           /\ Count(console[r], "Already converted") = 0
           /\ pc[r] \in {"loop", "done"}
                => Conversions(r) + Len(skipped_files[r]) = i[r]
           /\ pc[r] = "done" => i[r] = Len(fullpath_list[r])

\* A run with force_rebuild true has returned after two requests, one of
\* them converted.
C22_Witness ==
    /\ force_rebuild[1]
    /\ pc[1] = "done"
    /\ Len(fullpath_list[1]) = 2
    /\ Count(console[1], "Successfully converted") >= 1
    /\ OldFiles(1) = {}

\* C23 (mismatched lists): the first step of a run whose id list and path
\* list differ in length raises ValueError and changes nothing else: the
\* output directory is neither deleted, even with force_rebuild true, nor
\* created, no file changes, nothing is printed and no request is processed;
\* and a run that has raised takes no further step.
C23_ValueErrorBeforeAnyChange ==
    [][\A r \in Runs :
        /\ ( /\ pc[r] = "start"
             /\ Len(id_list[r]) # Len(fullpath_list[r])
             /\ pc'[r] # pc[r] )
           => /\ pc'[r] = "raised"
              /\ files' = files
              /\ locals' = locals
              /\ output' = output
        /\ pc[r] = "raised"
           => /\ pc'[r] = "raised"
              /\ i'[r] = 0
              /\ console'[r] = <<>>
              /\ generated_files'[r] = <<>>]_vars

\* A run with force_rebuild true has raised ValueError and the output
\* directory is still there with the markdown file it held.
C23_Witness ==
    /\ pc[1] = "raised"
    /\ force_rebuild[1]
    /\ out_exists[1]
    /\ OldFiles(1) # {}
    /\ i[1] = 0

\* Between requests run r has printed one outcome for each request it is
\* through with; inside the try block at most the outcome of the request it
\* is at is added; and the converter was called at most once per request.
VisitedOnce(r) ==
    /\ pc[r] \in {"loop", "done"} => Len(Outcomes(r)) = i[r]
    /\ InTry(r) => Len(Outcomes(r)) \in {i[r], i[r] + 1}
    /\ Conversions(r) <= i[r] + (IF InTry(r) THEN 1 ELSE 0)
    /\ i[r] <= Len(fullpath_list[r])

\* C24 (termination and coverage): a call that keeps running returns or
\* raises; when it has returned, the loop is past the last request and one
\* outcome was printed for each request; the loop only ever moves from a
\* request to the next one, and never prints a second outcome for, or calls
\* the converter a second time on, a request.
C24_TerminationAndCoverage ==
    /\ <>(pc[1] \in {"done", "raised"})
    /\ [](VisitedOnce(1))
    /\ [](pc[1] = "done" => Len(Outcomes(1)) = Len(fullpath_list[1]))
    /\ [][i'[1] \in {i[1], i[1] + 1}]_vars

\* A call with two requests has returned, one request failed and one
\* converted.
C24_Witness ==
    /\ pc[1] = "done"
    /\ Len(fullpath_list[1]) = 2
    /\ Count(Outcomes(1), "Error converting") = 1
    /\ Count(Outcomes(1), "Successfully converted") = 1

\* The request at position k of run r is the only one of the run with its
\* markdown file name.
OnlyRequestOfName(r, k) ==
    \A j \in 1..Len(fullpath_list[r]) : j # k => MdNameAt(r, j) # MdNameAt(r, k)

\* C25 as claimed (a failed request leaves no marker): when a run has
\* returned, the markdown file of a request that ended in an error, and is
\* the only request of its name, is not in the output directory.
C25_FailedLeavesNoMarker ==
    \A r \in Runs :
        pc[r] = "done"
        => \A k \in 1..Len(fullpath_list[r]) :
            (Outcomes(r)[k] = "Error converting" /\ OnlyRequestOfName(r, k))
            => MdNameAt(r, k) \notin DOMAIN md_files[out_dir[r]]

\* C26 as claimed (image provenance): every file of the images directory of
\* a run's output directory, which held no image before the run, was written
\* by the converter invocation of a request of that run, and is named with
\* the prefix of that request's identifier.
C26_ImageProvenance ==
    \A n \in DOMAIN image_files[out_dir[1]] :
        LET f == image_files[out_dir[1]][n]
        IN  /\ f.run = 1
            /\ f.pos + 1 \in 1..Len(id_list[1])
            /\ IsPrefix(<<ToString(id_list[1][f.pos + 1]), "_">>, n)

====
